---------------------------- MODULE Spec2Model ----------------------------
(***************************************************************************)
(* BOLT-SDK: the session store (BOLTCookieManager), the client (BOLTApi)   *)
(* with its authenticate-then-dispatch flow, and the route registry        *)
(* (BoltApiRoutes).                                                        *)
(*                                                                         *)
(* JavaScript runs one task at a time: a method body runs to completion    *)
(* up to its next `await`, so every action below is one synchronous        *)
(* stretch of code. The only suspension point of the client is the         *)
(* `await fetch(...)` of makeApiRequest (and the `await r.json()` that     *)
(* follows it in the endpoint methods).                                    *)
(***************************************************************************)
EXTENDS Integers, Sequences, FiniteSets, TLC

----------------------------------------------------------------------------
(* Values *)

\* JavaScript null / undefined for string-valued things.
NULL == "<null>"

\* JavaScript null for the Date-valued authenticatedAt.
NoDate == -1

\* Milliseconds, the unit of Date.getTime().
MsPerHour == 1000 * 60 * 60

MsPerMinute == 1000 * 60

\* isExpired's default argument, hours = 8.
DefaultHours == 8

\* JavaScript truthiness of a string-or-null value: null, undefined and ''
\* are falsy.
Truthy(s) == s # NULL /\ s # ""

----------------------------------------------------------------------------
(* Bounds *)

\* The clock is observed over this many validity windows.
MaxWindows == 1

\* Logical tasks that may have a call in flight at the same time.
NumTasks == 2

\* Client objects that may be constructed.
NumClients == 2

\* Network calls handed to the transport, in total.
MaxCalls == 2

\* Positional arguments handed to the query builder, at most.
MaxArgs == 2

Tasks == 1..NumTasks

Clients == 1..NumClients

\* The instants at which the clock is read, in milliseconds since the
\* module was loaded: around the end of each validity window that starts
\* at the beginning of the previous one's last minute, so that from a
\* login at T0 the times T0+7h59m, T0+8h, T0+8h+1ms and T0+8h01m all occur.
Offsets ==
    { 0, DefaultHours * MsPerHour - MsPerMinute, DefaultHours * MsPerHour,
      DefaultHours * MsPerHour + 1, DefaultHours * MsPerHour + MsPerMinute }

Instants ==
    { k * (DefaultHours * MsPerHour + MsPerMinute) + o :
         k \in 0..(MaxWindows - 1), o \in Offsets }

\* Values of the login response's set-cookie header (null: no header).
SetCookieHeaders == {NULL, "", "sid=a", "sid=b"}

\* Cookie values a caller may hand to setCookie directly.
CookieArgs == {NULL, "", "abc123"}

\* HTTP status codes of a response.
Statuses == {200, 401}

----------------------------------------------------------------------------
(* JavaScript values passed as endpoint arguments *)

\* A number, and a string given as its sequence of characters.
JsNum(n) == [type |-> "number", n |-> n, s |-> <<>>]

JsStr(chars) == [type |-> "string", n |-> 0, s |-> chars]

\* null and undefined: values without a toString method.
JsNull == [type |-> "object", n |-> 0, s |-> <<>>]

JsUndefined == [type |-> "undefined", n |-> 0, s |-> <<>>]

\* a.toString exists.
HasToString(a) == a.type \in {"number", "string"}

\* The characters of a sequence joined into one string.
RECURSIVE Concat(_)
Concat(chars) ==
    IF chars = <<>> THEN "" ELSE Head(chars) \o Concat(Tail(chars))

Digit(d) ==
    CASE d = 0 -> "0" [] d = 1 -> "1" [] d = 2 -> "2" [] d = 3 -> "3"
      [] d = 4 -> "4" [] d = 5 -> "5" [] d = 6 -> "6" [] d = 7 -> "7"
      [] d = 8 -> "8" [] d = 9 -> "9"

\* Number.prototype.toString() of a natural number.
RECURSIVE NatToString(_)
NatToString(n) ==
    IF n < 10 THEN Digit(n) ELSE NatToString(n \div 10) \o Digit(n % 10)

\* toString followed by a percent-encoding of the space.
toString_Encoded(a) ==
    IF a.type = "number"
    THEN IF a.n < 0 THEN "-" \o NatToString(-a.n) ELSE NatToString(a.n)
    ELSE Concat([i \in 1..Len(a.s) |-> IF a.s[i] = " " THEN "%20" ELSE a.s[i]])

\* args[i].toString()
toString(a) ==
    IF a.type = "number"
    THEN IF a.n < 0 THEN "-" \o NatToString(-a.n) ELSE NatToString(a.n)
    ELSE Concat(a.s)

----------------------------------------------------------------------------
(* BoltApiRoutes: the route registry *)

\* A route without `params`.
Route(path, method) ==
    [path |-> path, method |-> method, hasParams |-> FALSE, params |-> <<>>]

\* A route with `params`, each parameter name given as its characters.
RouteP(path, method, params) ==
    [path |-> path, method |-> method, hasParams |-> TRUE, params |-> params]

P_id == <<":", "i", "d">>

P_load_id == <<":", "l", "o", "a", "d", "_", "i", "d">>

P_load_status ==
    <<":", "l", "o", "a", "d", "_", "s", "t", "a", "t", "u", "s">>

BoltApiRoutes ==
    [ apiRoot                |-> Route("/boltAppRoot/api/", "NONE"),
      login                  |-> Route("/login/", "POST"),
      me                     |-> Route("/me/", "GET"),
      usersById              |-> RouteP("/users/", "GET", <<P_id>>),
      loadsById              |-> RouteP("/loads/", "GET", <<P_id>>),
      loadSegments           |-> Route("/load_segments/", "GET"),
      gpsBreadcrumbsByLoadId |-> RouteP("/breadcrumbs/", "GET", <<P_load_id>>),
      loadBoard              |-> RouteP("/load_board/", "GET", <<P_load_status>>),
      loadBoardShipments     |-> RouteP("/load_board/shipments/", "GET", <<P_load_status>>),
      shipmentsByLoadId      |-> RouteP("/shipments/", "GET", <<P_load_id>>),
      shipTo                 |-> Route("/shipto/", "GET"),
      shipToById             |-> RouteP("/shipto/", "GET", <<P_id>>),
      billToLocations        |-> Route("/billto/", "GET"),
      equipment              |-> Route("/equipment/", "GET"),
      segments               |-> RouteP("/segments/", "GET", <<P_load_id>>),
      trailers               |-> Route("/trailers/", "GET"),
      trailersById           |-> RouteP("/trailers/", "GET", <<P_id>>),
      trucks                 |-> Route("/trucks/", "GET"),
      trucksById             |-> RouteP("/trucks/", "GET", <<P_id>>),
      users                  |-> Route("/users/", "GET") ]

RouteNames == DOMAIN BoltApiRoutes

\* BOLTApi.version
version == "v1"

----------------------------------------------------------------------------
(* State *)

VARIABLES
    instance,         \* BOLTCookieManager.instance is non-null
    managers,         \* number of BOLTCookieManager objects constructed
    cookie,           \* BOLTCookieManager.cookie
    authenticatedAt,  \* BOLTCookieManager.authenticatedAt (getTime(), or NoDate)
    tenantUrl,        \* BOLTApi.tenantUrl
    username,         \* BOLTApi.username
    password,         \* BOLTApi.password
    clients,          \* the BOLTApi objects constructed so far
    task,             \* each logical task's call: where it is and what it holds
    calls,            \* number of requests handed to fetch so far
    last,             \* the latest event: a request handed to fetch, or a call's completion
    owner,            \* the authenticate() call whose login the store's cookie is from
    everSet,          \* some setCookie call has returned SET
    now               \* the wall clock, new Date().getTime()

store == <<cookie, authenticatedAt>>

config == <<tenantUrl, username, password>>

vars ==
    <<instance, managers, cookie, authenticatedAt, tenantUrl, username,
      password, clients, task, calls, last, owner, everSet, now>>

----------------------------------------------------------------------------
(* BOLTCookieManager *)

\* isExpired with `>=` in place of `>`.
isExpired_AtLeast(hours) ==
    IF authenticatedAt = NoDate
    THEN TRUE
    ELSE LET ageMs == now - authenticatedAt
         IN  ageMs >= hours * MsPerHour

\* isExpired with the age truncated to whole hours.
isExpired_WholeHours(hours) ==
    IF authenticatedAt = NoDate
    THEN TRUE
    ELSE LET ageMs == now - authenticatedAt
         IN  ageMs \div MsPerHour > hours

\* isExpired(hours): no timestamp means expired; otherwise the age in hours,
\* (now - authenticatedAt) / (1000*60*60) as a real number, is compared with
\* hours. ageMs / MsPerHour > hours is ageMs > hours * MsPerHour.
isExpired(hours) ==
    IF authenticatedAt = NoDate
    THEN TRUE
    ELSE LET ageMs == now - authenticatedAt
         IN  ageMs > hours * MsPerHour

\* isValid that looks at the cookie only, not at its age.
isValid_CookieOnly == cookie # NULL

\* isValid(): cookie !== null && !isExpired()
isValid == cookie # NULL /\ ~isExpired(DefaultHours)

\* getCookie()
getCookie == cookie

\* setCookie that checks the value only, not the timestamp.
setCookie_ValueOnly(cookieValue, at) ==
    IF ~Truthy(cookieValue)
    THEN [result |-> "INVALID_COOKIE_STRUCT", cookie |-> cookie, at |-> authenticatedAt]
    ELSE [result |-> "SET", cookie |-> cookieValue, at |-> at]

\* setCookie that rejects null but not the empty string.
setCookie_NullOnly(cookieValue, at) ==
    IF cookieValue = NULL \/ at = NoDate
    THEN [result |-> "INVALID_COOKIE_STRUCT", cookie |-> cookie, at |-> authenticatedAt]
    ELSE [result |-> "SET", cookie |-> cookieValue, at |-> at]

\* setCookie that assigns the two fields before it validates them.
setCookie_AssignFirst(cookieValue, at) ==
    IF ~Truthy(cookieValue) \/ at = NoDate
    THEN [result |-> "INVALID_COOKIE_STRUCT", cookie |-> cookieValue, at |-> at]
    ELSE [result |-> "SET", cookie |-> cookieValue, at |-> at]

\* setCookie that reports SET without storing the pair.
setCookie_ReportOnly(cookieValue, at) ==
    IF ~Truthy(cookieValue) \/ at = NoDate
    THEN [result |-> "INVALID_COOKIE_STRUCT", cookie |-> cookie, at |-> authenticatedAt]
    ELSE [result |-> "SET", cookie |-> cookie, at |-> authenticatedAt]

\* setCookie that keeps the stored pair when its timestamp is the later.
setCookie_KeepNewer(cookieValue, at) ==
    IF ~Truthy(cookieValue) \/ at = NoDate
    THEN [result |-> "INVALID_COOKIE_STRUCT", cookie |-> cookie, at |-> authenticatedAt]
    ELSE IF authenticatedAt # NoDate /\ authenticatedAt > at
    THEN [result |-> "SET", cookie |-> cookie, at |-> authenticatedAt]
    ELSE [result |-> "SET", cookie |-> cookieValue, at |-> at]

\* setCookie(cookieValue, authenticatedAt): the result and the two fields
\* after the call.
setCookie(cookieValue, at) ==
    IF ~Truthy(cookieValue) \/ at = NoDate
    THEN [result |-> "INVALID_COOKIE_STRUCT", cookie |-> cookie, at |-> authenticatedAt]
    ELSE [result |-> "SET", cookie |-> cookieValue, at |-> at]

\* deleteCookie that reports success without clearing the fields.
deleteCookie_Keeps ==
    [result |-> "SUCCESS", cookie |-> cookie, at |-> authenticatedAt]

\* deleteCookie(): the result and the two fields after the call.
deleteCookie ==
    [result |-> "SUCCESS", cookie |-> NULL, at |-> NoDate]

\* The constructor without its guard.
construct_Unguarded ==
    [threw |-> FALSE, instance |-> TRUE, managers |-> managers + 1]

\* The constructor: throws if an instance already exists, else registers
\* the new object as the instance.
construct ==
    IF instance
    THEN [threw |-> TRUE, instance |-> instance, managers |-> managers]
    ELSE [threw |-> FALSE, instance |-> TRUE, managers |-> managers + 1]

\* getInstance(), and the `if (!this.instance) getInstance()` that opens
\* every static method: constructs the instance if there is none.
getInstance ==
    IF ~instance
    THEN construct
    ELSE [threw |-> FALSE, instance |-> instance, managers |-> managers]

\* Which of the two logical states the store is in, and whether its cookie
\* is still inside the validity window.
StoreState ==
    IF cookie = NULL /\ authenticatedAt = NoDate THEN "unauthenticated"
    ELSE IF isValid THEN "valid"
    ELSE "expired"

----------------------------------------------------------------------------
(* BOLTApi: configuration *)

\* a ?? b
Coalesce(a, b) == IF a # NULL THEN a ELSE b

\* constructor that takes an explicit argument whenever one is given.
constructor_Overwrite(u, p, env) ==
    LET user == IF ~Truthy(username) \/ u # NULL
                THEN Coalesce(u, Coalesce(env.BOLT_USER_NAME, ""))
                ELSE username
        url  == IF ~Truthy(tenantUrl)
                THEN Coalesce(env.BOLT_TENANT_URL, "")
                ELSE tenantUrl
        pass == IF ~Truthy(password) \/ p # NULL
                THEN Coalesce(p, Coalesce(env.BOLT_USER_PASSWORD, ""))
                ELSE password
    IN  [ username  |-> user,
          tenantUrl |-> url,
          password  |-> pass,
          threw     |-> ~Truthy(url) \/ ~Truthy(user) \/ ~Truthy(pass) ]

\* constructor that does not look at the password when it validates.
constructor_PasswordUnchecked(u, p, env) ==
    LET user == IF ~Truthy(username)
                THEN Coalesce(u, Coalesce(env.BOLT_USER_NAME, ""))
                ELSE username
        url  == IF ~Truthy(tenantUrl)
                THEN Coalesce(env.BOLT_TENANT_URL, "")
                ELSE tenantUrl
        pass == IF ~Truthy(password)
                THEN Coalesce(p, Coalesce(env.BOLT_USER_PASSWORD, ""))
                ELSE password
    IN  [ username  |-> user,
          tenantUrl |-> url,
          password  |-> pass,
          threw     |-> ~Truthy(url) \/ ~Truthy(user) ]

\* constructor(username?, password?) with process.env as it is at the call:
\* the three static fields after the call, and whether it threw.
constructor(u, p, env) ==
    LET user == IF ~Truthy(username)
                THEN Coalesce(u, Coalesce(env.BOLT_USER_NAME, ""))
                ELSE username
        url  == IF ~Truthy(tenantUrl)
                THEN Coalesce(env.BOLT_TENANT_URL, "")
                ELSE tenantUrl
        pass == IF ~Truthy(password)
                THEN Coalesce(p, Coalesce(env.BOLT_USER_PASSWORD, ""))
                ELSE password
    IN  [ username  |-> user,
          tenantUrl |-> url,
          password  |-> pass,
          threw     |-> ~Truthy(url) \/ ~Truthy(user) \/ ~Truthy(pass) ]

\* getApiRootPath()
getApiRootPath == tenantUrl \o BoltApiRoutes.apiRoot.path \o version

\* validateIdNumber that admits zero.
validateIdNumber_NonNegative(id) == id.type = "number" /\ id.n >= 0

\* validateIdNumber(id)
validateIdNumber(id) == id.type = "number" /\ id.n > 0

----------------------------------------------------------------------------
(* BOLTApi: the request builder and dispatcher *)

\* params[i] with one leading ':' removed.
ParamKey(param) ==
    IF Len(param) > 0 /\ Head(param) = ":" THEN Tail(param) ELSE param

RECURSIVE JoinAmp(_)
\* memoArray.join('&')
JoinAmp(pairs) ==
    IF pairs = <<>> THEN ""
    ELSE IF Len(pairs) = 1 THEN Head(pairs)
    ELSE Head(pairs) \o "&" \o JoinAmp(Tail(pairs))

\* makeQueryString that compares the counts before looking for params.
makeQueryString_CountFirst(rte, args) ==
    IF Len(rte.params) # Len(args)
    THEN [threw |-> TRUE, value |-> "Parameter count mismatch"]
    ELSE IF ~rte.hasParams \/ Len(rte.params) = 0
    THEN [threw |-> FALSE, value |-> ""]
    ELSE IF \E i \in 1..Len(args) : ~HasToString(args[i])
    THEN [threw |-> TRUE, value |-> "TypeError"]
    ELSE LET memoArray ==
                 [i \in 1..Len(rte.params) |->
                     Concat(ParamKey(rte.params[i])) \o "=" \o toString(args[i])]
         IN  [threw |-> FALSE, value |-> "?" \o JoinAmp(memoArray)]

\* makeQueryString that only refuses too few arguments.
makeQueryString_AtLeast(rte, args) ==
    IF ~rte.hasParams \/ Len(rte.params) = 0
    THEN [threw |-> FALSE, value |-> ""]
    ELSE IF Len(rte.params) > Len(args)
    THEN [threw |-> TRUE, value |-> "Parameter count mismatch"]
    ELSE IF \E i \in 1..Len(rte.params) : ~HasToString(args[i])
    THEN [threw |-> TRUE, value |-> "TypeError"]
    ELSE LET memoArray ==
                 [i \in 1..Len(rte.params) |->
                     Concat(ParamKey(rte.params[i])) \o "=" \o toString(args[i])]
         IN  [threw |-> FALSE, value |-> "?" \o JoinAmp(memoArray)]

\* makeQueryString(rte, ...args): the query string, or the error thrown.
makeQueryString(rte, args) ==
    IF ~rte.hasParams \/ Len(rte.params) = 0
    THEN [threw |-> FALSE, value |-> ""]
    ELSE IF Len(rte.params) # Len(args)
    THEN [threw |-> TRUE, value |-> "Parameter count mismatch"]
    ELSE IF \E i \in 1..Len(args) : ~HasToString(args[i])
    THEN [threw |-> TRUE, value |-> "TypeError"]
    ELSE LET memoArray ==
                 [i \in 1..Len(rte.params) |->
                     Concat(ParamKey(rte.params[i])) \o "=" \o toString(args[i])]
         IN  [threw |-> FALSE,
              value |-> IF Len(memoArray) > 0 THEN "?" \o JoinAmp(memoArray) ELSE ""]

\* includeAuth left at makeStdOptions' default, true.
includeAuth_Default(bar) == TRUE

\* includeAuth of makeApiRequest
includeAuth(bar) == bar.path # BoltApiRoutes.login.path

\* makeStdHeaders that attaches the cookie only while the session is valid.
makeStdHeaders_ValidOnly(inclAuth) ==
    [ ContentType |-> "application/json",
      Accept      |-> "*/*",
      Cookie      |-> IF inclAuth /\ isValid THEN getCookie ELSE NULL ]

\* makeStdHeaders(includeAuth): the Cookie header is NULL when not set.
makeStdHeaders(inclAuth) ==
    [ ContentType |-> "application/json",
      Accept      |-> "*/*",
      Cookie      |-> IF inclAuth /\ Truthy(getCookie) THEN getCookie ELSE NULL ]

\* makeStdOptions(rte, includeAuth)
makeStdOptions(rte, inclAuth) ==
    [method |-> rte.method, headers |-> makeStdHeaders(inclAuth)]

\* makeApiRequest(bar, body, ...args) up to its `await fetch(url, opts)`:
\* the request handed to fetch, or the error thrown before it.
makeApiRequest(bar, body, args) ==
    LET queryString == makeQueryString(bar, args)
        opts == makeStdOptions(bar, includeAuth(bar))
    IN  IF queryString.threw
        THEN [threw |-> TRUE, error |-> queryString.value]
        ELSE [threw   |-> FALSE,
              url     |-> getApiRootPath \o bar.path \o queryString.value,
              method  |-> opts.method,
              headers |-> opts.headers,
              body    |-> body]

\* No body argument.
NoBody == <<>>

----------------------------------------------------------------------------
(* BOLTApi: the endpoint methods *)

\* What an endpoint method does: the route it hands to makeApiRequest,
\* whether it validates its argument with validateIdNumber first, and
\* whether it passes its argument on as a positional argument.
Endpoint(route, validates, passes) ==
    [route |-> route, validates |-> validates, passes |-> passes]

Endpoints ==
    [ getMe                 |-> Endpoint("me", FALSE, FALSE),
      getLoadsById          |-> Endpoint("loadsById", TRUE, TRUE),
      getLoadBreadcrumbs    |-> Endpoint("gpsBreadcrumbsByLoadId", TRUE, TRUE),
      getLoadBoardShipments |-> Endpoint("loadBoardShipments", FALSE, TRUE),
      GetLoadBoard          |-> Endpoint("loadBoardShipments", FALSE, TRUE),
      getUsersById          |-> Endpoint("usersById", TRUE, TRUE),
      getLoadSegments       |-> Endpoint("loadSegments", FALSE, FALSE),
      getShipmentsByLoadId  |-> Endpoint("shipmentsByLoadId", TRUE, TRUE),
      getShipTo             |-> Endpoint("shipTo", FALSE, FALSE),
      getShipToById         |-> Endpoint("shipToById", TRUE, TRUE),
      getBillToLocations    |-> Endpoint("billToLocations", FALSE, FALSE),
      getEquipment          |-> Endpoint("equipment", FALSE, FALSE),
      getSegments           |-> Endpoint("segments", TRUE, TRUE),
      getTrailers           |-> Endpoint("trailers", FALSE, FALSE),
      getTrailersById       |-> Endpoint("trailers", TRUE, TRUE),
      getTrucks             |-> Endpoint("trucks", FALSE, FALSE),
      getTrucksById         |-> Endpoint("trucksById", TRUE, TRUE),
      getUsers              |-> Endpoint("users", FALSE, FALSE) ]

EndpointNames == DOMAIN Endpoints

\* An endpoint method up to its `await this.makeApiRequest(...)`: the
\* request handed to fetch, or the error thrown before it.
endpoint(m, a) ==
    LET e == Endpoints[m]
    IN  IF e.validates /\ ~validateIdNumber(a)
        THEN [threw |-> TRUE, error |-> "Invalid id"]
        ELSE makeApiRequest(BoltApiRoutes[e.route], NoBody,
                            IF e.passes THEN <<a>> ELSE <<>>)

----------------------------------------------------------------------------
(* BOLTApi: authenticate *)

\* The branch of authenticate() taken when isValid() is true: SET if the
\* cached cookie reads back truthy, FAILURE otherwise.
authenticateCached ==
    IF Truthy(getCookie) THEN "SET" ELSE "FAILURE"

\* authenticate that accepts the session header of a 200 response only.
authenticateResponse_OkOnly(resp, authAt) ==
    LET setCookieHeader == resp.setCookie
    IN  IF Truthy(setCookieHeader) /\ resp.status = 200
        THEN setCookie(setCookieHeader, authAt)
        ELSE [result |-> "FAILURE", cookie |-> cookie, at |-> authenticatedAt]

\* authenticate that stamps the session when the response arrives.
authenticateResponse_AtArrival(resp, authAt) ==
    LET setCookieHeader == resp.setCookie
    IN  IF Truthy(setCookieHeader)
        THEN setCookie(setCookieHeader, now)
        ELSE [result |-> "FAILURE", cookie |-> cookie, at |-> authenticatedAt]

\* authenticate that clears the store when the response has no session
\* header.
authenticateResponse_ClearOnFailure(resp, authAt) ==
    LET setCookieHeader == resp.setCookie
    IN  IF Truthy(setCookieHeader)
        THEN setCookie(setCookieHeader, authAt)
        ELSE [result |-> "FAILURE", cookie |-> NULL, at |-> NoDate]

\* The part of authenticate() after `await makeApiRequest(login, body)`
\* has resolved with response resp: the result and the store's two fields.
authenticateResponse(resp, authAt) ==
    LET setCookieHeader == resp.setCookie
    IN  IF Truthy(setCookieHeader)
        THEN setCookie(setCookieHeader, authAt)
        ELSE [result |-> "FAILURE", cookie |-> cookie, at |-> authenticatedAt]

\* The login body.
LoginBody == <<username, password>>

----------------------------------------------------------------------------
(* Records of the bookkeeping variables *)

\* A task with no call in progress.
IdleTask ==
    [ pc     |-> "idle",   \* idle, fetch (awaiting fetch), json (awaiting r.json())
      op     |-> "none",   \* the method called
      client |-> 0,        \* the client object authenticate() was called on
      authAt |-> NoDate,   \* authenticate's local authAt
      pre    |-> "none",   \* StoreState when authenticate() was called
      succ   |-> FALSE,    \* the call directly follows a first login (see Follows)
      owner  |-> 0 ]       \* OwnerInWindow when the call started

NoOwner == [client |-> 0, value |-> NULL, at |-> NoDate]

\* `last` records the latest of these events: a request handed to fetch,
\* the return of setCookie or deleteCookie, the completion of an
\* authenticate(), and an endpoint method's throw before any request.
NoEvent == [kind |-> "none"]

\* The event that client c's call of method op has completed with `result`,
\* having handed `net` requests to fetch; start is the time it started.
\* status is the HTTP status of the response it received (0: none).
Completed(op, c, result, net, pre, start, succ, own, status) ==
    [ kind |-> "call", op |-> op, client |-> c, result |-> result,
      net |-> net, pre |-> pre, start |-> start, succ |-> succ,
      owner |-> own, status |-> status ]

\* A store or constructor call, which is synchronous and belongs to no client.
Returned(op, result) ==
    Completed(op, 0, result, 0, StoreState, now, FALSE, 0, 0)

\* The event that request req of client c's method op for route `route` has
\* been handed to fetch, with what the store held when it was built.
Sent(op, route, c, req) ==
    [ kind |-> "request", op |-> op, route |-> route, client |-> c,
      url |-> req.url, method |-> req.method, headers |-> req.headers,
      body |-> req.body, storeCookie |-> cookie, storeState |-> StoreState,
      owner |-> [client |-> owner.client, value |-> owner.value] ]

\* The arguments endpoint method m was called with: a, if it has a
\* parameter.
Given(m, a) == IF Endpoints[m].passes THEN <<a>> ELSE <<>>

\* The event that new BOLTApi(u, p) has returned client c or thrown, with
\* process.env = env, the three static fields being `pre` before it.
Constructed(c, u, p, env) ==
    [ kind |-> "construct", client |-> c, u |-> u, p |-> p, env |-> env,
      threw |-> constructor(u, p, env).threw,
      pre |-> [tenantUrl |-> tenantUrl, username |-> username,
               password |-> password] ]

\* The event that makeQueryString(rte, ...args) has returned or thrown.
Built(rte, args) ==
    [ kind |-> "query", rte |-> rte, args |-> args,
      threw |-> makeQueryString(rte, args).threw,
      value |-> makeQueryString(rte, args).value ]

\* The event that client c's makeApiRequest(bar, undefined, ...args) has
\* handed its request to fetch.
Dispatched(c, bar, args) ==
    [ kind |-> "request", op |-> "makeApiRequest", client |-> c,
      rte |-> bar, args |-> args,
      url |-> makeApiRequest(bar, NoBody, args).url,
      headers |-> makeApiRequest(bar, NoBody, args).headers, net |-> 1 ]

\* The event that client c's makeApiRequest(bar, undefined, ...args) has
\* thrown before handing a request to fetch.
Refused(c, bar, args) ==
    [ kind |-> "refused", op |-> "makeApiRequest", client |-> c,
      rte |-> bar, args |-> args,
      threw |-> TRUE, value |-> makeApiRequest(bar, NoBody, args).error,
      net |-> 0 ]

\* The latest event is the completion of an authenticate() that started on
\* an unauthenticated store, logged in with one request and resolved to
\* SET, and the clock is still within the validity window of its start.
Follows ==
    /\ last.kind = "call"
    /\ last.op = "authenticate"
    /\ last.result = "SET"
    /\ last.pre = "unauthenticated"
    /\ last.net = 1
    /\ now - last.start <= DefaultHours * MsPerHour

\* The store's cookie is from the login of a client's authenticate() whose
\* start is at most the validity window ago: that client, else 0.
OwnerInWindow ==
    IF owner.client # 0 /\ now - owner.at <= DefaultHours * MsPerHour
    THEN owner.client
    ELSE 0

----------------------------------------------------------------------------
(* Inputs *)

\* process.env at the time of a construction.
Env(user, url, pass) ==
    [BOLT_USER_NAME |-> user, BOLT_TENANT_URL |-> url, BOLT_USER_PASSWORD |-> pass]

Envs ==
    { Env(NULL, NULL, NULL), Env("u2", "https://t2", "p2") }

UserArgs == {NULL, "u3"}

PassArgs == {NULL, "p3"}

\* The constructor's inputs when the static fields are still unset: an
\* argument may be absent, empty or a name; the environment may be empty,
\* hold all three variables, or the tenant URL only.
ConfigUserArgs == {NULL, "", "u3"}

ConfigPassArgs == {NULL, "", "p3"}

ConfigEnvs ==
    { Env(NULL, NULL, NULL), Env("u2", "https://t2", "p2"),
      Env(NULL, "https://t4", NULL) }

\* Responses of the transport to a login request.
Responses == [status : Statuses, setCookie : SetCookieHeaders]

\* Arguments handed to the endpoint methods.
EndpointArgs == {JsNum(7), JsNum(0)}

\* Arguments handed to the endpoint methods of the facade: the
\* identifiers 0, -5, 'abc', 1, 7 and 999999.
FacadeArgs ==
    EndpointArgs \cup { JsNum(0 - 5), JsStr(<<"a", "b", "c">>), JsNum(1),
                        JsNum(999999) }

\* The endpoint methods called alongside the session operations.
SessionEndpoints == {"getMe", "getUsersById"}

\* The instants at which the clock is read while logins supersede one
\* another: a session of T0 = 0 has expired at 8h + 1ms; a login started
\* then is answered at once, exactly 8h later, or 1ms after that.
LoginInstants ==
    { 0, DefaultHours * MsPerHour + 1, 2 * DefaultHours * MsPerHour + 1,
      2 * DefaultHours * MsPerHour + 2 }

\* Timestamps a caller may hand to setCookie directly.
DateArgs == {NoDate, now}

\* Route descriptors beyond the registry: two params, the second declared
\* without the ':' marker; one param with two markers; `params` empty.
TwoParams == RouteP("/pairs/", "GET", <<P_id, <<"n", "a", "m", "e">>>>)

TwoMarkers == RouteP("/marks/", "GET", << <<":", ":", "i", "d">> >>)

EmptyParams == RouteP("/none/", "GET", <<>>)

\* The descriptors handed to the query builder.
Descriptors ==
    {BoltApiRoutes[r] : r \in RouteNames} \cup {TwoParams, TwoMarkers, EmptyParams}

NewYork == JsStr(<<"N", "e", "w", " ", "Y", "o", "r", "k">>)

\* The values of a positional argument (`...args: any`).
ArgValues == {JsNum(42), NewYork, JsNull}

\* The argument lists handed to the query builder.
ArgLists == UNION {[1..n -> ArgValues] : n \in 0..MaxArgs}

----------------------------------------------------------------------------
(* Initial state: the module has been loaded, which runs                   *)
(* `const api = new BOLTApi()` with the three environment variables set.   *)

Init ==
    /\ instance = FALSE
    /\ managers = 0
    /\ cookie = NULL
    /\ authenticatedAt = NoDate
    /\ tenantUrl = "https://t1"
    /\ username = "u1"
    /\ password = "p1"
    /\ clients = {1}
    /\ task = [t \in Tasks |-> IdleTask]
    /\ calls = 0
    /\ last = NoEvent
    /\ owner = NoOwner
    /\ everSet = FALSE
    /\ now = 0

----------------------------------------------------------------------------
(* Actions *)

\* Every static method of BOLTCookieManager first ensures the instance.
EnsureInstance ==
    /\ instance' = getInstance.instance
    /\ managers' = getInstance.managers

\* Time passes, to a later instant.
Tick(later) ==
    /\ later > now
    /\ now' = later
    /\ UNCHANGED <<instance, managers, cookie, authenticatedAt, tenantUrl,
                   username, password, clients, task, calls, last, owner, everSet>>

\* new BOLTCookieManager()
NewCookieManager ==
    /\ instance' = construct.instance
    /\ managers' = construct.managers
    /\ UNCHANGED <<cookie, authenticatedAt, tenantUrl, username, password,
                   clients, task, calls, last, owner, now, everSet>>

\* BOLTCookieManager.setCookie(v, d)
CallSetCookie(v, d) ==
    /\ EnsureInstance
    /\ cookie' = setCookie(v, d).cookie
    /\ authenticatedAt' = setCookie(v, d).at
    /\ last' = Returned("setCookie", setCookie(v, d).result)
    /\ owner' = IF setCookie(v, d).result = "SET" THEN NoOwner ELSE owner
    /\ everSet' = (everSet \/ setCookie(v, d).result = "SET")
    /\ UNCHANGED <<tenantUrl, username, password, clients, task, calls,
                   now>>

\* BOLTCookieManager.deleteCookie()
CallDeleteCookie ==
    /\ EnsureInstance
    /\ cookie' = deleteCookie.cookie
    /\ authenticatedAt' = deleteCookie.at
    /\ last' = Returned("deleteCookie", deleteCookie.result)
    /\ owner' = NoOwner
    /\ UNCHANGED <<tenantUrl, username, password, clients, task, calls,
                   now, everSet>>

\* BOLTCookieManager.isValid(), isExpired(), getCookie() or
\* getAuthenticatedAt(): a read, which ensures the instance.
CallRead ==
    /\ EnsureInstance
    /\ UNCHANGED <<cookie, authenticatedAt, tenantUrl, username, password,
                   clients, task, calls, last, owner, now, everSet>>

\* new BOLTApi(u, p) with process.env = env: a client object exists only
\* if the constructor did not throw.
Construct(c, u, p, env) ==
    /\ c \notin clients
    /\ username' = constructor(u, p, env).username
    /\ tenantUrl' = constructor(u, p, env).tenantUrl
    /\ password' = constructor(u, p, env).password
    /\ clients' = IF constructor(u, p, env).threw THEN clients ELSE clients \cup {c}
    /\ UNCHANGED <<instance, managers, cookie, authenticatedAt, task, calls,
                   last, owner, now, everSet>>

\* new BOLTApi(u, p) with process.env = env, as Construct, the call and
\* its outcome being recorded.
NewClient(c, u, p, env) ==
    /\ c \notin clients
    /\ username' = constructor(u, p, env).username
    /\ tenantUrl' = constructor(u, p, env).tenantUrl
    /\ password' = constructor(u, p, env).password
    /\ clients' = IF constructor(u, p, env).threw THEN clients ELSE clients \cup {c}
    /\ last' = Constructed(c, u, p, env)
    /\ UNCHANGED <<instance, managers, cookie, authenticatedAt, task, calls,
                   owner, now, everSet>>

\* Task t is the one that runs the next call: the first idle one (which
\* task runs a call makes no difference to the program).
Free(t) ==
    /\ task[t].pc = "idle"
    /\ \A u \in Tasks : u < t => task[u].pc # "idle"

\* client c's authenticate(), up to its return (cached session) or its
\* `await` of the login request.
AuthStart(t, c) ==
    /\ Free(t)
    /\ c \in clients
    /\ EnsureInstance
    /\ IF isValid
       THEN /\ last' = Completed("authenticate", c, authenticateCached, 0,
                                 StoreState, now, Follows, OwnerInWindow, 0)
            /\ UNCHANGED <<task, calls>>
       ELSE /\ calls < MaxCalls
            /\ ~makeApiRequest(BoltApiRoutes.login, LoginBody, <<>>).threw
            /\ task' = [task EXCEPT ![t] =
                          [ pc |-> "fetch", op |-> "authenticate", client |-> c,
                            authAt |-> now, pre |-> StoreState,
                            succ |-> Follows, owner |-> OwnerInWindow ]]
            /\ calls' = calls + 1
            /\ last' = Sent("authenticate", "login", c,
                            makeApiRequest(BoltApiRoutes.login, LoginBody, <<>>))
    /\ UNCHANGED <<cookie, authenticatedAt, tenantUrl, username, password,
                   clients, owner, now, everSet>>

\* The start recorded latest by the authenticate() calls in flight.
LatestAuthAt ==
    CHOOSE a \in {task[u].authAt : u \in {v \in Tasks : task[v].pc = "fetch"}} :
       \A u \in Tasks : task[u].pc = "fetch" => task[u].authAt <= a

\* AuthSettle with authAt kept in a field that the calls share instead of
\* a local of each call: the session is stamped with the latest start.
AuthSettle_SharedAuthAt(t, resp) ==
    /\ task[t].pc = "fetch"
    /\ task[t].op = "authenticate"
    /\ EnsureInstance
    /\ LET r == authenticateResponse(resp, LatestAuthAt)
       IN  /\ cookie' = r.cookie
           /\ authenticatedAt' = r.at
           /\ last' = Completed("authenticate", task[t].client, r.result, 1,
                                task[t].pre, task[t].authAt, task[t].succ,
                                task[t].owner, resp.status)
           /\ owner' = IF r.result = "SET"
                       THEN [client |-> task[t].client, value |-> resp.setCookie,
                             at |-> task[t].authAt]
                       ELSE owner
           /\ everSet' = (everSet \/ r.result = "SET")
    /\ task' = [task EXCEPT ![t] = IdleTask]
    /\ UNCHANGED <<tenantUrl, username, password, clients, calls, now>>

\* The login request of task t resolves with response resp, and
\* authenticate() runs to its return.
AuthSettle(t, resp) ==
    /\ task[t].pc = "fetch"
    /\ task[t].op = "authenticate"
    /\ EnsureInstance
    /\ LET r == authenticateResponse(resp, task[t].authAt)
       IN  /\ cookie' = r.cookie
           /\ authenticatedAt' = r.at
           /\ last' = Completed("authenticate", task[t].client, r.result, 1,
                                task[t].pre, task[t].authAt, task[t].succ,
                                task[t].owner, resp.status)
           /\ owner' = IF r.result = "SET"
                       THEN [client |-> task[t].client, value |-> resp.setCookie,
                             at |-> task[t].authAt]
                       ELSE owner
           /\ everSet' = (everSet \/ r.result = "SET")
    /\ task' = [task EXCEPT ![t] = IdleTask]
    /\ UNCHANGED <<tenantUrl, username, password, clients, calls, now>>

\* The login request of task t resolves with response resp, as AuthSettle,
\* the pair that the store held until then being recorded.
AuthResolve(t, resp) ==
    /\ task[t].pc = "fetch"
    /\ task[t].op = "authenticate"
    /\ EnsureInstance
    /\ LET r == authenticateResponse(resp, task[t].authAt)
       IN  /\ cookie' = r.cookie
           /\ authenticatedAt' = r.at
           /\ last' = Completed("authenticate", task[t].client, r.result, 1,
                                task[t].pre, task[t].authAt, task[t].succ,
                                task[t].owner, resp.status)
                          @@ [ header |-> resp.setCookie, at |-> now,
                               prev |-> [ cookie |-> cookie, at |-> authenticatedAt,
                                          client |-> owner.client ] ]
           /\ owner' = IF r.result = "SET"
                       THEN [client |-> task[t].client, value |-> resp.setCookie,
                             at |-> task[t].authAt]
                       ELSE owner
           /\ everSet' = (everSet \/ r.result = "SET")
    /\ task' = [task EXCEPT ![t] = IdleTask]
    /\ UNCHANGED <<tenantUrl, username, password, clients, calls, now>>

\* The login request of task t fails in the transport: fetch rejects, and
\* so does authenticate().
AuthReject(t) ==
    /\ task[t].pc = "fetch"
    /\ task[t].op = "authenticate"
    /\ last' = Completed("authenticate", task[t].client, "rejected", 1,
                         task[t].pre, task[t].authAt, task[t].succ,
                         task[t].owner, 0)
    /\ task' = [task EXCEPT ![t] = IdleTask]
    /\ UNCHANGED <<instance, managers, cookie, authenticatedAt, tenantUrl,
                   username, password, clients, calls, owner, now, everSet>>

\* CallEndpoint that clears a session it finds expired before it
\* dispatches.
CallEndpoint_DropExpired(t, c, m, a) ==
    /\ Free(t)
    /\ c \in clients
    /\ IF endpoint(m, a).threw
       THEN /\ last' = Completed(m, c, "Error", 0, StoreState, now, FALSE, 0, 0)
                          @@ [args |-> Given(m, a)]
            /\ UNCHANGED <<instance, managers, task, calls>>
       ELSE /\ calls < MaxCalls
            /\ EnsureInstance
            /\ task' = [task EXCEPT ![t] =
                          [IdleTask EXCEPT !.pc = "fetch", !.op = m]]
            /\ calls' = calls + 1
            /\ last' = Sent(m, Endpoints[m].route, c, endpoint(m, a))
                          @@ [args |-> Given(m, a)]
    /\ cookie' = IF StoreState = "expired" THEN NULL ELSE cookie
    /\ authenticatedAt' = IF StoreState = "expired" THEN NoDate ELSE authenticatedAt
    /\ UNCHANGED <<tenantUrl, username, password, clients, owner, now, everSet>>

\* client c's endpoint method m with argument a, up to its throw or its
\* `await` of the request.
CallEndpoint(t, c, m, a) ==
    /\ Free(t)
    /\ c \in clients
    /\ IF endpoint(m, a).threw
       THEN /\ last' = Completed(m, c, "Error", 0, StoreState, now, FALSE, 0, 0)
                          @@ [args |-> Given(m, a)]
            /\ UNCHANGED <<instance, managers, task, calls>>
       ELSE /\ calls < MaxCalls
            /\ EnsureInstance
            /\ task' = [task EXCEPT ![t] =
                          [IdleTask EXCEPT !.pc = "fetch", !.op = m]]
            /\ calls' = calls + 1
            /\ last' = Sent(m, Endpoints[m].route, c, endpoint(m, a))
                          @@ [args |-> Given(m, a)]
    /\ UNCHANGED <<cookie, authenticatedAt, tenantUrl, username, password,
                   clients, owner, now, everSet>>

\* FetchSettle that sends the request again when the transport fails.
FetchSettle_Retry(t, ok) ==
    /\ task[t].pc = "fetch"
    /\ task[t].op # "authenticate"
    /\ task' = [task EXCEPT ![t] =
                   IF ok THEN [task[t] EXCEPT !.pc = "json"] ELSE task[t]]
    /\ calls' = IF ok \/ calls >= MaxCalls THEN calls ELSE calls + 1
    /\ UNCHANGED <<instance, managers, cookie, authenticatedAt, tenantUrl,
                   username, password, clients, last, owner, now, everSet>>

\* The request of endpoint task t resolves (ok): the method goes on to
\* `await r.json()`; or it fails in the transport: the method rejects.
FetchSettle(t, ok) ==
    /\ task[t].pc = "fetch"
    /\ task[t].op # "authenticate"
    /\ task' = [task EXCEPT ![t] =
                   IF ok THEN [task[t] EXCEPT !.pc = "json"] ELSE IdleTask]
    /\ UNCHANGED <<instance, managers, cookie, authenticatedAt, tenantUrl,
                   username, password, clients, calls, last, owner, now, everSet>>

\* `await r.json()` of endpoint task t resolves (ok) or rejects, and the
\* method returns.
JsonSettle(t, ok) ==
    /\ task[t].pc = "json"
    /\ ok \in BOOLEAN
    /\ task' = [task EXCEPT ![t] = IdleTask]
    /\ UNCHANGED <<instance, managers, cookie, authenticatedAt, tenantUrl,
                   username, password, clients, calls, last, owner, now, everSet>>

\* this.makeQueryString(rte, ...args)
CallMakeQueryString(rte, args) ==
    /\ last' = Built(rte, args)
    /\ UNCHANGED <<instance, managers, cookie, authenticatedAt, tenantUrl,
                   username, password, clients, task, calls, owner, now, everSet>>

\* client c's makeApiRequest(bar, undefined, ...args), up to its throw or
\* its `await fetch(url, opts)`.
CallMakeApiRequest(t, c, bar, args) ==
    /\ Free(t)
    /\ c \in clients
    /\ IF makeApiRequest(bar, NoBody, args).threw
       THEN /\ last' = Refused(c, bar, args)
            /\ UNCHANGED <<instance, managers, task, calls>>
       ELSE /\ calls < MaxCalls
            /\ EnsureInstance
            /\ task' = [task EXCEPT ![t] =
                          [IdleTask EXCEPT !.pc = "fetch", !.op = "makeApiRequest"]]
            /\ calls' = calls + 1
            /\ last' = Dispatched(c, bar, args)
    /\ UNCHANGED <<cookie, authenticatedAt, tenantUrl, username, password,
                   clients, owner, now, everSet>>

\* The request of makeApiRequest task t resolves or fails in the
\* transport, and makeApiRequest returns or rejects.
RequestSettle(t) ==
    /\ task[t].pc = "fetch"
    /\ task[t].op = "makeApiRequest"
    /\ task' = [task EXCEPT ![t] = IdleTask]
    /\ UNCHANGED <<instance, managers, cookie, authenticatedAt, tenantUrl,
                   username, password, clients, calls, last, owner, now, everSet>>

Next ==
    \/ \E later \in Instants : Tick(later)
    \/ NewCookieManager
    \/ \E v \in CookieArgs, d \in DateArgs : CallSetCookie(v, d)
    \/ CallDeleteCookie
    \/ CallRead
    \/ \E c \in Clients, u \in UserArgs, p \in PassArgs, env \in Envs :
          Construct(c, u, p, env)
    \/ \E t \in Tasks, c \in Clients : AuthStart(t, c)
    \/ \E t \in Tasks, resp \in Responses : AuthSettle(t, resp)
    \/ \E t \in Tasks : AuthReject(t)
    \/ \E t \in Tasks, c \in Clients, m \in SessionEndpoints, a \in EndpointArgs :
          CallEndpoint(t, c, m, a)
    \/ \E t \in Tasks, ok \in BOOLEAN : FetchSettle(t, ok)
    \/ \E t \in Tasks, ok \in BOOLEAN : JsonSettle(t, ok)

Spec == Init /\ [][Next]_vars

\* The facade: every endpoint method called with every argument, next to
\* authenticate() and the store's deleteCookie().
NextFacade ==
    \/ \E t \in Tasks, c \in Clients, m \in EndpointNames, a \in FacadeArgs :
          CallEndpoint(t, c, m, a)
    \/ \E t \in Tasks, ok \in BOOLEAN : FetchSettle(t, ok)
    \/ \E t \in Tasks, ok \in BOOLEAN : JsonSettle(t, ok)
    \/ \E t \in Tasks, c \in Clients : AuthStart(t, c)
    \/ \E t \in Tasks, resp \in Responses : AuthSettle(t, resp)
    \/ \E t \in Tasks : AuthReject(t)
    \/ CallDeleteCookie

SpecFacade == Init /\ [][NextFacade]_vars

\* The class as its static initializers leave it, before any constructor
\* call: no configuration, no client.
InitConfig ==
    /\ instance = FALSE
    /\ managers = 0
    /\ cookie = NULL
    /\ authenticatedAt = NoDate
    /\ tenantUrl = NULL
    /\ username = NULL
    /\ password = NULL
    /\ clients = {}
    /\ task = [t \in Tasks |-> IdleTask]
    /\ calls = 0
    /\ last = NoEvent
    /\ owner = NoOwner
    /\ everSet = FALSE
    /\ now = 0

\* Construction from the unset configuration, followed by the calls of
\* the constructed clients and of the store.
NextConfig ==
    \/ \E c \in Clients, u \in ConfigUserArgs, p \in ConfigPassArgs,
          env \in ConfigEnvs : NewClient(c, u, p, env)
    \/ \E t \in Tasks, c \in Clients : AuthStart(t, c)
    \/ \E t \in Tasks, resp \in Responses : AuthSettle(t, resp)
    \/ \E t \in Tasks : AuthReject(t)
    \/ \E t \in Tasks, c \in Clients, m \in SessionEndpoints, a \in EndpointArgs :
          CallEndpoint(t, c, m, a)
    \/ \E t \in Tasks, ok \in BOOLEAN : FetchSettle(t, ok)
    \/ \E t \in Tasks, ok \in BOOLEAN : JsonSettle(t, ok)
    \/ \E v \in CookieArgs, d \in DateArgs : CallSetCookie(v, d)
    \/ CallDeleteCookie

SpecConfig == InitConfig /\ [][NextConfig]_vars

\* Logins that supersede one another: authenticate() called by either
\* task before and after the session has expired, with answers that come
\* at once or late.
NextLogins ==
    \/ \E later \in LoginInstants : Tick(later)
    \/ \E t \in Tasks, c \in Clients : AuthStart(t, c)
    \/ \E t \in Tasks, resp \in Responses : AuthResolve(t, resp)
    \/ \E t \in Tasks : AuthReject(t)
    \/ \E v \in CookieArgs, d \in DateArgs : CallSetCookie(v, d)

SpecLogins == Init /\ [][NextLogins]_vars

\* The request builder on its own: makeQueryString and makeApiRequest
\* called with every descriptor and argument list.
NextBuilder ==
    \/ \E rte \in Descriptors, args \in ArgLists : CallMakeQueryString(rte, args)
    \/ \E t \in Tasks, c \in Clients, bar \in Descriptors, args \in ArgLists :
          CallMakeApiRequest(t, c, bar, args)
    \/ \E t \in Tasks : RequestSettle(t)

SpecBuilder == Init /\ [][NextBuilder]_vars

----------------------------------------------------------------------------
(* Properties *)

\* The validity window in milliseconds.
Window == DefaultHours * MsPerHour

\* Task t has an authenticate() awaiting its login request.
LoggingIn(t) == task[t].pc = "fetch" /\ task[t].op = "authenticate"

\* The latest event is the completion of an authenticate().
AuthCompleted == last.kind = "call" /\ last.op = "authenticate"

\* C1: in every reachable state, under any interleaving of setCookie,
\* deleteCookie and concurrent authenticate() calls, cookie and
\* authenticatedAt are both present or both absent.
C1_SetAndClearedTogether ==
    (cookie = NULL) <=> (authenticatedAt = NoDate)

\* An authenticate() has just committed its login while another one is
\* still awaiting its own, and the store holds a cookie with its timestamp.
C1_Witness ==
    /\ AuthCompleted
    /\ last.result = "SET"
    /\ last.net = 1
    /\ \E t \in Tasks : LoggingIn(t)
    /\ cookie # NULL
    /\ authenticatedAt # NoDate

\* C2: an authenticate() that directly follows one which started on an
\* unauthenticated store and resolved to SET after one login request, and
\* that starts within the validity window of that first call, issues no
\* request and resolves to SET: one network call in total.
C2_SecondCallServedFromCache ==
    /\ \A t \in Tasks : ~task[t].succ
    /\ AuthCompleted /\ last.succ => last.result = "SET" /\ last.net = 0

\* The second call has completed at exactly T0 + 8h, and the login of the
\* first is the only request ever handed to fetch.
C2_Witness ==
    /\ AuthCompleted
    /\ last.succ
    /\ last.result = "SET"
    /\ last.net = 0
    /\ calls = 1
    /\ now - authenticatedAt = Window

\* C3: whenever authenticate() is called while isValid() is true, it
\* returns SET, hands no request to fetch, and leaves cookie and
\* authenticatedAt unchanged.
C3_ValidMeansCached ==
    [][ \A t \in Tasks, c \in Clients :
          AuthStart(t, c) /\ isValid =>
             /\ last'.kind = "call"
             /\ last'.op = "authenticate"
             /\ last'.result = "SET"
             /\ last'.net = 0
             /\ calls' = calls
             /\ task' = task
             /\ cookie' = cookie
             /\ authenticatedAt' = authenticatedAt ]_vars

\* An authenticate() called on a valid store has returned SET without a
\* request, and the store is as the earlier login left it.
C3_Witness ==
    /\ AuthCompleted
    /\ last.pre = "valid"
    /\ last.result = "SET"
    /\ last.net = 0
    /\ cookie = owner.value
    /\ authenticatedAt = owner.at
    /\ owner.client # 0

\* C4: when the store is not valid, authenticate() hands one login
\* request to fetch; when the response arrives it resolves to SET if and
\* only if the set-cookie header is non-empty, and then the store holds
\* that header value and the timestamp recorded at the start; otherwise it
\* resolves to FAILURE. The status code makes no difference, and no other
\* result occurs.
C4_LoginOutcome ==
    [][ /\ \A t \in Tasks, c \in Clients :
             AuthStart(t, c) /\ ~isValid =>
                /\ calls' = calls + 1
                /\ last'.kind = "request"
                /\ last'.route = "login"
        /\ \A t \in Tasks, resp \in Responses :
             AuthSettle(t, resp) =>
                /\ last'.result \in {"SET", "FAILURE"}
                /\ last'.net = 1
                /\ (last'.result = "SET") <=> (resp.setCookie \notin {NULL, ""})
                /\ resp.setCookie \notin {NULL, ""} =>
                      /\ cookie' = resp.setCookie
                      /\ authenticatedAt' = task[t].authAt
                /\ resp.setCookie \in {NULL, ""} =>
                      /\ cookie' = cookie
                      /\ authenticatedAt' = authenticatedAt ]_vars

\* A login answered with status 401 and a set-cookie header has resolved
\* to SET, and the store holds the header value and the start timestamp,
\* which is earlier than the time of the response.
C4_Witness ==
    /\ AuthCompleted
    /\ last.result = "SET"
    /\ last.net = 1
    /\ last.status = 401
    /\ cookie = owner.value
    /\ authenticatedAt = last.start
    /\ last.start < now

\* C5: setCookie with an absent value (null or '') or an absent timestamp
\* returns INVALID_COOKIE_STRUCT and leaves cookie and authenticatedAt as
\* they were; with both present it returns SET and the store holds exactly
\* that value and timestamp.
C5_SetCookieValidates ==
    [][ \A v \in CookieArgs, d \in DateArgs :
          CallSetCookie(v, d) =>
             IF v \in {NULL, ""} \/ d = NoDate
             THEN /\ last'.result = "INVALID_COOKIE_STRUCT"
                  /\ cookie' = cookie
                  /\ authenticatedAt' = authenticatedAt
             ELSE /\ last'.result = "SET"
                  /\ cookie' = v
                  /\ authenticatedAt' = d ]_vars

\* setCookie was refused on a store holding an expired session, which is
\* still there.
C5_Witness ==
    /\ last.kind = "call"
    /\ last.op = "setCookie"
    /\ last.result = "INVALID_COOKIE_STRUCT"
    /\ last.pre = "expired"
    /\ StoreState = "expired"
    /\ cookie # NULL

\* C6: isValid() is false until some setCookie call has succeeded;
\* deleteCookie() can be called in every state, returns SUCCESS, and
\* isValid() is false right after it.
C6_InvalidBeforeSetAndAfterDelete ==
    /\ ~everSet => ~isValid
    /\ ENABLED CallDeleteCookie
    /\ last.kind = "call" /\ last.op = "deleteCookie" =>
          /\ last.result = "SUCCESS"
          /\ ~isValid
          /\ cookie = NULL
          /\ authenticatedAt = NoDate

\* deleteCookie() has been called on a valid session.
C6_Witness ==
    /\ last.kind = "call"
    /\ last.op = "deleteCookie"
    /\ last.pre = "valid"
    /\ everSet
    /\ ~isValid

\* C7: with a cookie set at T0, isValid() is true at every time t with
\* t - T0 <= 8h (at T0+7h59m and at T0+8h in particular) and false at every
\* later time (at T0+8h01m in particular); an unauthenticated store reports
\* isExpired() true whatever the window.
C7_EightHourWindow ==
    /\ cookie # NULL /\ authenticatedAt # NoDate =>
          /\ isValid <=> (now - authenticatedAt <= 8 * 60 * 60 * 1000)
          /\ now - authenticatedAt = (7 * 60 + 59) * 60 * 1000 => isValid
          /\ now - authenticatedAt = 8 * 60 * 60 * 1000 => isValid
          /\ now - authenticatedAt = 8 * 60 * 60 * 1000 + 1 => ~isValid
          /\ now - authenticatedAt = (8 * 60 + 1) * 60 * 1000 => ~isValid
    /\ cookie = NULL /\ authenticatedAt = NoDate =>
          \A hours \in {0, DefaultHours, 24} : isExpired(hours)

\* The clock stands at T0 + 8h01m of a cookie handed to setCookie.
C7_Witness ==
    /\ cookie = "abc123"
    /\ authenticatedAt # NoDate
    /\ now - authenticatedAt = (8 * 60 + 1) * 60 * 1000
    /\ ~isValid

\* C8: a request for the login route never carries a Cookie header,
\* whatever the store holds; includeAuth is false for the login route and
\* true for every other route of the registry.
C8_LoginWithoutCookie ==
    /\ \A r \in RouteNames : includeAuth(BoltApiRoutes[r]) <=> (r # "login")
    /\ last.kind = "request" /\ last.route = "login" =>
          last.headers.Cookie = NULL

\* A login request was built while the store held an expired cookie.
C8_Witness ==
    /\ last.kind = "request"
    /\ last.route = "login"
    /\ last.storeCookie # NULL
    /\ last.storeState = "expired"
    /\ last.headers.Cookie = NULL

\* C9: a non-login request carries a Cookie header if and only if the
\* store holds a cookie when the request is built, and the header is that
\* cookie verbatim, also when the cookie is older than the validity window.
C9_CookieAttachedVerbatim ==
    last.kind = "request" /\ last.route # "login" =>
       /\ (last.headers.Cookie # NULL) <=> (last.storeCookie # NULL)
       /\ last.headers.Cookie = last.storeCookie

\* A non-login request was built with the expired cookie of the store.
C9_Witness ==
    /\ last.kind = "request"
    /\ last.route # "login"
    /\ last.storeState = "expired"
    /\ last.storeCookie # NULL
    /\ last.headers.Cookie = last.storeCookie

\* C10: there is one session store however many clients are constructed:
\* at most one BOLTCookieManager object exists; a cookie committed by one
\* client's authenticate() is the cookie in the requests of every other
\* client; and authenticate() on another client within the validity window
\* returns SET without a request.
C10_OneStoreForAllClients ==
    /\ managers <= 1
    /\ instance <=> (managers = 1)
    /\ last.kind = "request" /\ last.route # "login"
          /\ last.owner.client \notin {0, last.client} =>
             last.headers.Cookie = last.owner.value
    /\ \A t \in Tasks : LoggingIn(t) => task[t].owner \in {0, task[t].client}
    /\ AuthCompleted /\ last.owner \notin {0, last.client} =>
          last.result = "SET" /\ last.net = 0

\* With two clients constructed, a request of one carries the cookie that
\* the other's authenticate() committed.
C10_Witness ==
    /\ Cardinality(clients) = 2
    /\ managers = 1
    /\ last.kind = "request"
    /\ last.route # "login"
    /\ last.owner.client \notin {0, last.client}
    /\ last.headers.Cookie = last.owner.value
    /\ last.headers.Cookie # NULL

\* The latest event is a return or throw of makeQueryString for a
\* descriptor with at least one param.
BuiltWithParams == last.kind = "query" /\ Len(last.rte.params) >= 1

C12_NoParamsEmptyQuery ==
    last.kind = "query" /\ (~last.rte.hasParams \/ last.rte.params = <<>>) =>
       ~last.threw /\ last.value = ""

\* The builder was handed two arguments, one of them null, for the
\* trailers route, which declares no params, and returned ''.
C12_Witness ==
    /\ last.kind = "query"
    /\ last.rte = BoltApiRoutes.trailers
    /\ ~last.rte.hasParams
    /\ Len(last.args) = 2
    /\ \E i \in 1..2 : last.args[i] = JsNull
    /\ ~last.threw
    /\ last.value = ""

\* The key the claim expects for a declared param: the name with one
\* leading ':' removed.
C13_Key(param) ==
    CASE param = P_id -> "id"
      [] param = P_load_id -> "load_id"
      [] param = P_load_status -> "load_status"
      [] param = <<"n", "a", "m", "e">> -> "name"
      [] param = <<":", ":", "i", "d">> -> ":id"

\* The text the claim expects for an argument.
C13_Text(arg) ==
    CASE arg = JsNum(42) -> "42"
      [] arg = NewYork -> "New York"

\* C13: the query string built for params p and arguments a is '?' and
\* the pairs key=value joined by '&' in the order of p, the key being the
\* param with one leading ':' removed and the value the text of the
\* argument, unencoded: ?id=42 for usersById and 42, and a space stays a
\* space.
C13_QueryFormat ==
    last.kind = "query" /\ ~last.threw /\ Len(last.rte.params) >= 1 =>
       LET p == last.rte.params
           a == last.args
       IN  /\ Len(p) = 1 =>
                 last.value = "?" \o C13_Key(p[1]) \o "=" \o C13_Text(a[1])
           /\ Len(p) = 2 =>
                 last.value = "?" \o C13_Key(p[1]) \o "=" \o C13_Text(a[1])
                                 \o "&" \o C13_Key(p[2]) \o "=" \o C13_Text(a[2])
           /\ last.rte = BoltApiRoutes.usersById /\ a = <<JsNum(42)>> =>
                 last.value = "?id=42"
           /\ last.rte = BoltApiRoutes.loadBoard /\ a = <<NewYork>> =>
                 last.value = "?load_status=New York"
           /\ last.rte = TwoParams /\ a = <<NewYork, JsNum(42)>> =>
                 last.value = "?id=New York&name=42"
           /\ Len(p) <= 2

\* The builder has joined two pairs in declaration order, the second
\* value with its space.
C13_Witness ==
    /\ last.kind = "query"
    /\ last.rte = TwoParams
    /\ last.args = <<JsNum(42), NewYork>>
    /\ ~last.threw
    /\ last.value = "?id=42&name=New York"

\* The endpoint methods that take an identifier.
IdMethods ==
    { "getLoadsById", "getLoadBreadcrumbs", "getUsersById",
      "getShipmentsByLoadId", "getShipToById", "getSegments",
      "getTrailersById", "getTrucksById" }

\* The latest event is the throw or the request of an ID-bearing method.
IdCall == last.kind \in {"call", "request"} /\ last.op \in IdMethods

\* C14: every ID-bearing endpoint method rejects the identifiers 0, -5
\* and 'abc' and accepts 1 and 999999; a rejection hands no request to
\* fetch and changes nothing of the store, the configuration or the calls
\* in flight.
C14_IdValidation ==
    [][ \A t \in Tasks, c \in Clients :
          ( /\ Free(t)
            /\ last'.kind \in {"call", "request"}
            /\ last'.op \in IdMethods
            /\ CallEndpoint(t, c, last'.op, last'.args[1]) ) =>
             /\ last'.args[1] \in {JsNum(0), JsNum(0 - 5), JsStr(<<"a", "b", "c">>)} =>
                   /\ last'.kind = "call"
                   /\ last'.result = "Error"
                   /\ last'.net = 0
                   /\ UNCHANGED <<instance, managers, cookie, authenticatedAt,
                                  tenantUrl, username, password, clients, task,
                                  calls, owner, now, everSet>>
             /\ last'.args[1] \in {JsNum(1), JsNum(999999)} =>
                   /\ last'.kind = "request"
                   /\ calls' = calls + 1 ]_vars

\* getTrailersById(-5) was rejected while the store holds a session.
C14_Witness ==
    /\ IdCall
    /\ last.op = "getTrailersById"
    /\ last.args = <<JsNum(0 - 5)>>
    /\ last.kind = "call"
    /\ last.result = "Error"
    /\ cookie # NULL
    /\ calls = 1

\* The path and the key of the resource of each ID-bearing method.
C15_Resource ==
    [ getLoadsById         |-> "/loads/?id=",
      getLoadBreadcrumbs   |-> "/breadcrumbs/?load_id=",
      getUsersById         |-> "/users/?id=",
      getShipmentsByLoadId |-> "/shipments/?load_id=",
      getShipToById        |-> "/shipto/?id=",
      getSegments          |-> "/segments/?load_id=",
      getTrailersById      |-> "/trailers/?id=",
      getTrucksById        |-> "/trucks/?id=" ]

\* The text of a valid identifier.
C15_Text(id) ==
    CASE id = JsNum(1) -> "1"
      [] id = JsNum(7) -> "7"
      [] id = JsNum(999999) -> "999999"

\* C15: the request of an ID-bearing endpoint method called with a valid
\* identifier is for that resource's path with the identifier in the
\* query string under the declared key: /trailers/?id=7 for
\* getTrailersById(7), /trucks/?id=7 for getTrucksById(7).
C15_IdInQuery ==
    IdCall /\ last.kind = "request" =>
       last.url = "https://t1/boltAppRoot/api/v1" \o C15_Resource[last.op]
                     \o C15_Text(last.args[1])

\* C16: construction throws if and only if, after resolution, the tenant
\* URL, the username or the password is empty, and then no client object
\* comes of it; so whenever a client exists, and whenever a request is
\* handed to fetch, all three and the version tag are non-empty.
C16_ConstructionValidates ==
    /\ last.kind = "construct" =>
          /\ last.threw <=>
                (~Truthy(tenantUrl) \/ ~Truthy(username) \/ ~Truthy(password))
          /\ last.threw <=> (last.client \notin clients)
    /\ clients # {} \/ last.kind = "request" \/ (\E t \in Tasks : task[t].pc # "idle") =>
          /\ Truthy(tenantUrl)
          /\ Truthy(username)
          /\ Truthy(password)
          /\ version # ""
    /\ last.kind = "request" /\ last.op = "authenticate" =>
          /\ last.body = <<username, password>>
          /\ last.url = tenantUrl \o "/boltAppRoot/api/v1/login/"

\* A construction has thrown for want of a tenant URL after it had stored
\* the username it was given, and there is no client.
C16_Witness ==
    /\ last.kind = "construct"
    /\ last.threw
    /\ last.pre.username = NULL
    /\ username = "u3"
    /\ ~Truthy(tenantUrl)
    /\ clients = {}

\* The first non-empty of an explicit argument and the environment's
\* value, '' if there is none.
C17_FirstNonEmpty(arg, envValue) ==
    IF Truthy(arg) THEN arg ELSE IF Truthy(envValue) THEN envValue ELSE ""

\* C17: a username or password resolved at construction is the first
\* non-empty value among the explicit argument and the environment's
\* value, and a construction fails only if, for one of the three values,
\* there is no non-empty source.
C17_FirstNonEmptyWins ==
    last.kind = "construct" =>
       /\ ~Truthy(last.pre.username) =>
             username = C17_FirstNonEmpty(last.u, last.env.BOLT_USER_NAME)
       /\ ~Truthy(last.pre.password) =>
             password = C17_FirstNonEmpty(last.p, last.env.BOLT_USER_PASSWORD)
       /\ ( /\ ~Truthy(last.pre.username)
            /\ ~Truthy(last.pre.password)
            /\ ~Truthy(last.pre.tenantUrl)
            /\ last.threw ) =>
             \/ C17_FirstNonEmpty(last.u, last.env.BOLT_USER_NAME) = ""
             \/ C17_FirstNonEmpty(last.p, last.env.BOLT_USER_PASSWORD) = ""
             \/ ~Truthy(last.env.BOLT_TENANT_URL)

\* C18: a tenant URL, username or password that is non-empty is never
\* changed again, by a construction with other arguments or another
\* environment or by any call of a client or of the store.
C18_ResolvedOnce ==
    [][ /\ Truthy(tenantUrl) => tenantUrl' = tenantUrl
        /\ Truthy(username) => username' = username
        /\ Truthy(password) => password' = password ]_vars

\* A second client was constructed with explicit credentials and an
\* environment without them, and the configuration is still the one
\* first resolved from the environment.
C18_Witness ==
    /\ last.kind = "construct"
    /\ ~last.threw
    /\ last.u = "u3"
    /\ last.p = "p3"
    /\ last.env = Env(NULL, "https://t4", NULL)
    /\ last.pre.username = "u2"
    /\ username = "u2"
    /\ password = "p2"
    /\ tenantUrl = "https://t2"
    /\ Cardinality(clients) = 2

\* C19: after a login through authenticate() the store's authenticatedAt
\* is the time at which that call started, before its request was handed
\* to fetch, whenever the response arrived; the validity window runs from
\* that start.
C19_TimestampAtStart ==
    /\ \A t \in Tasks : LoggingIn(t) => task[t].authAt <= now
    /\ AuthCompleted /\ last.result = "SET" /\ last.net = 1 =>
          /\ authenticatedAt = last.start
          /\ last.start <= now
          /\ isValid <=> (now - last.start <= Window)

\* The response of a login arrived 8h01m after the call started: the
\* session is stamped with the start and is expired as it is committed.
C19_Witness ==
    /\ AuthCompleted
    /\ last.result = "SET"
    /\ last.net = 1
    /\ now - last.start = Window + MsPerMinute
    /\ authenticatedAt = last.start
    /\ cookie # NULL
    /\ ~isValid

\* The identifiers that validateIdNumber is to accept.
ValidIds == {JsNum(1), JsNum(7), JsNum(999999)}

\* C20: nothing is retried. A step hands at most one request to fetch,
\* and only the step that starts an invocation does: authenticate() on a
\* store that is not valid, and an endpoint method whose arguments are
\* valid (an ID-bearing method with an invalid identifier hands none);
\* the steps that follow the request, whatever the status of the response
\* and whether or not the transport or the body fails, hand no other, so
\* a completed authenticate() has issued at most one.
C20_NoRetry ==
    [][ /\ calls' \in {calls, calls + 1}
        /\ calls' = calls + 1 =>
              /\ last'.kind = "request"
              /\ \E t \in Tasks :
                    /\ task[t].pc = "idle"
                    /\ task'[t].pc = "fetch"
                    /\ \A u \in Tasks \ {t} : task'[u] = task[u]
        /\ (\E t \in Tasks : task[t].pc # "idle" /\ task'[t] # task[t]) =>
              calls' = calls
        /\ last'.kind = "call" /\ last'.op = "authenticate" => last'.net \in {0, 1}
        /\ \A t \in Tasks, c \in Clients :
              ( /\ Free(t)
                /\ last'.kind \in {"call", "request"}
                /\ last'.op \in EndpointNames
                /\ CallEndpoint(t, c, last'.op,
                                IF last'.args = <<>> THEN JsNum(7) ELSE last'.args[1]) ) =>
                 IF last'.op \in IdMethods => last'.args[1] \in ValidIds
                 THEN calls' = calls + 1 /\ last'.kind = "request"
                 ELSE calls' = calls /\ last'.kind = "call" ]_vars

\* A login answered with status 401 and no session header has resolved
\* to FAILURE, and its request is the only one ever handed to fetch.
C20_Witness ==
    /\ AuthCompleted
    /\ last.result = "FAILURE"
    /\ last.status = 401
    /\ last.net = 1
    /\ calls = 1
    /\ \A t \in Tasks : task[t].pc = "idle"

\* C21: a login that does not establish a session leaves the store as it
\* was. No step of authenticate() before its `await` writes the store; a
\* response without a set-cookie header (or with an empty one) resolves
\* the call to FAILURE with cookie and authenticatedAt unchanged; a
\* transport failure rejects the call, which is neither SET nor FAILURE,
\* with cookie and authenticatedAt unchanged.
C21_FailedLoginKeepsStore ==
    [][ /\ \A t \in Tasks, c \in Clients :
             AuthStart(t, c) => store' = store
        /\ \A t \in Tasks, resp \in Responses :
             AuthSettle(t, resp) /\ resp.setCookie \in {NULL, ""} =>
                /\ last'.result = "FAILURE"
                /\ store' = store
        /\ \A t \in Tasks :
             AuthReject(t) =>
                /\ last'.result = "rejected"
                /\ last'.result \notin {"SET", "FAILURE"}
                /\ store' = store ]_vars

\* An authenticate() called on an expired session got a response without
\* a session header and resolved to FAILURE; the expired cookie and its
\* timestamp are still in the store.
C21_Witness ==
    /\ AuthCompleted
    /\ last.result = "FAILURE"
    /\ last.net = 1
    /\ last.pre = "expired"
    /\ StoreState = "expired"
    /\ cookie = owner.value
    /\ authenticatedAt = owner.at
    /\ cookie # NULL

\* The store holds a cookie that is older than the validity window.
Stale ==
    /\ cookie # NULL
    /\ authenticatedAt # NoDate
    /\ now - authenticatedAt > Window

\* C22 as stated: after a login that follows an expired session has
\* succeeded, isValid() is true and the next authenticate() is served
\* from cache, however long the login took.
C22_ValidAfterRelogin ==
    [][ /\ \A t \in Tasks, resp \in Responses :
             ( /\ AuthResolve(t, resp)
               /\ task[t].pre = "expired"
               /\ resp.setCookie \notin {NULL, ""} ) => isValid'
        /\ \A t \in Tasks, c \in Clients :
             ( /\ AuthStart(t, c)
               /\ AuthCompleted
               /\ last.pre = "expired"
               /\ last.result = "SET"
               /\ last.net = 1 ) =>
                /\ last'.kind = "call"
                /\ last'.result = "SET"
                /\ last'.net = 0 ]_vars

\* C22: authenticate() called on a store whose cookie is older than the
\* validity window hands a login request to fetch and does not return the
\* old cookie as SET; if the response carries a session header, cookie and
\* authenticatedAt are replaced by that header and the start of this
\* call; isValid() is then true if and only if the response arrived
\* within the validity window of that start, and an authenticate() that
\* follows within that window is served from cache.
C22_ReloginAfterExpiry ==
    [][ /\ \A t \in Tasks, c \in Clients :
             AuthStart(t, c) /\ Stale =>
                /\ last'.kind = "request"
                /\ last'.route = "login"
                /\ calls' = calls + 1
                /\ task'[t].authAt = now
                /\ store' = store
        /\ \A t \in Tasks, resp \in Responses :
             ( /\ AuthResolve(t, resp)
               /\ task[t].pre = "expired"
               /\ resp.setCookie \notin {NULL, ""} ) =>
                /\ last'.result = "SET"
                /\ cookie' = resp.setCookie
                /\ authenticatedAt' = task[t].authAt
                /\ isValid' <=> (now - task[t].authAt <= Window)
        /\ \A t \in Tasks, c \in Clients :
             ( /\ AuthStart(t, c)
               /\ AuthCompleted
               /\ last.pre = "expired"
               /\ last.result = "SET"
               /\ last.net = 1
               /\ now - last.start <= Window ) =>
                /\ last'.kind = "call"
                /\ last'.result = "SET"
                /\ last'.net = 0
                /\ calls' = calls
                /\ store' = store ]_vars

\* The session of T0 = 0 had expired; a login started at 8h + 1ms has
\* replaced it by its own header and start, and exactly 8h after that
\* start the new session is valid.
C22_Witness ==
    /\ AuthCompleted
    /\ last.result = "SET"
    /\ last.net = 1
    /\ last.pre = "expired"
    /\ last.prev.cookie # NULL
    /\ last.prev.at = 0
    /\ last.start = Window + 1
    /\ cookie = last.header
    /\ cookie # last.prev.cookie
    /\ authenticatedAt = last.start
    /\ now = 2 * Window + 1
    /\ isValid

\* C23 as stated: whenever authenticate() resolves to SET, isValid() is
\* true as the call returns, however long the login took.
C23_SetMeansValid ==
    [][ /\ \A t \in Tasks, c \in Clients :
             AuthStart(t, c) /\ last'.kind = "call" /\ last'.result = "SET" =>
                isValid'
        /\ \A t \in Tasks, resp \in Responses :
             AuthSettle(t, resp) /\ last'.result = "SET" => isValid' ]_vars

\* C23: whenever authenticate() resolves to SET the store holds a cookie
\* as the call returns. Served from cache, the session is valid at that
\* moment; after a login it is valid if and only if the response arrived
\* within the validity window counted from the start of the call.
C23_SetMeansValidInWindow ==
    [][ /\ \A t \in Tasks, c \in Clients :
             AuthStart(t, c) /\ last'.kind = "call" /\ last'.result = "SET" =>
                /\ cookie' # NULL
                /\ isValid'
        /\ \A t \in Tasks, resp \in Responses :
             AuthSettle(t, resp) /\ last'.result = "SET" =>
                /\ cookie' # NULL
                /\ authenticatedAt' = task[t].authAt
                /\ isValid' <=> (now - task[t].authAt <= Window) ]_vars

\* The response of a login arrived exactly 8h after the call started,
\* the call resolved to SET, and the session is valid.
C23_Witness ==
    /\ AuthCompleted
    /\ last.result = "SET"
    /\ last.net = 1
    /\ now - last.start = Window
    /\ authenticatedAt = last.start
    /\ isValid

\* C24: under every interleaving of authenticate() calls with one another
\* and with setCookie and deleteCookie, a pair that the store holds from a
\* login is the header answered to one attempt together with the start
\* recorded by that same attempt; as long as the latest event is a login
\* resolved to SET, the store holds that attempt's header and start.
C24_PairFromOneAttempt ==
    /\ owner.client # 0 =>
          /\ cookie = owner.value
          /\ authenticatedAt = owner.at
    /\ AuthCompleted /\ last.result = "SET" /\ last.net = 1 =>
          /\ owner.client = last.client
          /\ owner.at = last.start
          /\ cookie = owner.value
          /\ authenticatedAt = last.start

\* Of two logins in flight the one started first has committed its
\* header with its own start, while the one started later still waits.
C24_Witness ==
    /\ AuthCompleted
    /\ last.result = "SET"
    /\ last.net = 1
    /\ \E t \in Tasks : LoggingIn(t) /\ task[t].authAt > last.start
    /\ cookie = owner.value
    /\ authenticatedAt = last.start
    /\ calls = 2

\* C25: logins are not coalesced. authenticate() called while the store
\* is not valid hands its own login request to fetch, whether or not
\* other logins are in flight, so there are as many requests as logins in
\* flight; and the login whose response arrives, whenever it started,
\* replaces the stored pair by its header and its start, also when the
\* stored timestamp is the later one.
C25_NoCoalescing ==
    [][ /\ \A t \in Tasks, c \in Clients :
             AuthStart(t, c) /\ ~isValid =>
                /\ calls' = calls + 1
                /\ last'.kind = "request"
                /\ last'.route = "login"
                /\ task'[t].pc = "fetch"
                /\ task'[t].authAt = now
        /\ Cardinality({t \in Tasks : task'[t].pc = "fetch"}) <= calls'
        /\ (\A t \in Tasks : task'[t].pc = "fetch") => calls' >= NumTasks
        /\ \A t \in Tasks, resp \in Responses :
             AuthResolve(t, resp) /\ resp.setCookie \notin {NULL, ""} =>
                /\ last'.result = "SET"
                /\ cookie' = resp.setCookie
                /\ authenticatedAt' = task[t].authAt ]_vars

\* Two logins were started on the unauthenticated store, at 0 and at
\* 8h + 1ms, before either was answered; the later one committed first,
\* and the answer to the earlier one has replaced its pair: the store's
\* timestamp went back from 8h + 1ms to 0.
C25_Witness ==
    /\ AuthCompleted
    /\ last.result = "SET"
    /\ last.net = 1
    /\ calls = NumTasks
    /\ last.pre = "unauthenticated"
    /\ last.prev.client # 0
    /\ last.prev.at > last.start
    /\ authenticatedAt = last.start
    /\ authenticatedAt < last.prev.at
    /\ cookie = last.header
    /\ \A t \in Tasks : task[t].pc = "idle"

\* C26: an endpoint method, with the dispatcher it calls, leaves cookie
\* and authenticatedAt as they are and hands no login request to fetch:
\* unless its identifier is invalid it hands exactly one request, for its
\* own route, to fetch, whatever state the store is in; the steps that
\* follow the request leave the store alone too. The store changes only
\* in a step that is a login of authenticate() resolving to SET, a
\* setCookie returning SET or a deleteCookie, and only authenticate()
\* sends a login request.
C26_EndpointsLeaveStore ==
    [][ /\ \A t \in Tasks, c \in Clients :
             ( /\ Free(t)
               /\ last'.kind \in {"call", "request"}
               /\ last'.op \in EndpointNames
               /\ CallEndpoint(t, c, last'.op,
                               IF last'.args = <<>> THEN JsNum(7) ELSE last'.args[1]) ) =>
                /\ store' = store
                /\ owner' = owner
                /\ last'.kind = "call" =>
                      /\ last'.op \in IdMethods
                      /\ ~validateIdNumber(last'.args[1])
                /\ last'.kind = "request" =>
                      /\ last'.route # "login"
                      /\ last'.route = Endpoints[last'.op].route
                      /\ last'.storeState = StoreState
                      /\ calls' = calls + 1
        /\ \A t \in Tasks, ok \in BOOLEAN :
             FetchSettle(t, ok) \/ JsonSettle(t, ok) =>
                /\ store' = store
                /\ calls' = calls
        /\ store' # store =>
              /\ last'.kind = "call"
              /\ last'.op \in {"authenticate", "setCookie", "deleteCookie"}
              /\ last'.op = "authenticate" => last'.result = "SET" /\ last'.net = 1
              /\ last'.op = "setCookie" => last'.result = "SET"
        /\ last'.kind = "request" /\ last'.route = "login" =>
              last'.op = "authenticate" ]_vars

\* getUsersById(7) was called while the store held an expired session:
\* its request is the only one ever handed to fetch, so there was no
\* login, and the expired session is still in the store.
C26_Witness ==
    /\ last.kind = "request"
    /\ last.op = "getUsersById"
    /\ last.route = "usersById"
    /\ last.storeState = "expired"
    /\ calls = 1
    /\ StoreState = "expired"
    /\ cookie = last.storeCookie
    /\ cookie # NULL
    /\ \A t \in Tasks : ~LoggingIn(t)

\* A configuration value with unset (undefined) and '' taken as the same.
C27_Value(x) == IF Truthy(x) THEN x ELSE ""

\* C27: a construction that throws leaves tenant URL, username and
\* password as they were before it (an unset value and '' counting as
\* the same), so the first construction that succeeds has the username,
\* the password and the tenant URL that it resolves itself from its
\* arguments and its environment.
C27_FailedConstructionKeepsConfig ==
    last.kind = "construct" =>
       /\ last.threw =>
             /\ C27_Value(tenantUrl) = C27_Value(last.pre.tenantUrl)
             /\ C27_Value(username) = C27_Value(last.pre.username)
             /\ C27_Value(password) = C27_Value(last.pre.password)
       /\ ~last.threw /\ clients = {last.client} =>
             /\ username = Coalesce(last.u, Coalesce(last.env.BOLT_USER_NAME, ""))
             /\ password = Coalesce(last.p, Coalesce(last.env.BOLT_USER_PASSWORD, ""))
             /\ tenantUrl = Coalesce(last.env.BOLT_TENANT_URL, "")

============================================================================
